---- MODULE Spec2Model ----
(***************************************************************************)
(* Demand-paged virtual memory simulator (virtual_memory_sim).             *)
(*                                                                         *)
(* The engine of src/src/virtual_memory.rs: a TLB kept in a LinkedHashMap, *)
(* a sparse page table, a frame table whose frames are handed out through  *)
(* two Fifo queues (available / victimizer), and a backing store read with *)
(* a single seek + read.  The replay loop of src/src/lib.rs issues one     *)
(* access per trace record and unwraps its result.                         *)
(***************************************************************************)
EXTENDS Integers, Sequences, FiniteSets, TLC

(***************************************************************************)
(* Bounds of the model.                                                    *)
(***************************************************************************)
\* page numbers replayed: 0..MaxPage (the code: any u8)
MaxPage == 3
\* offsets replayed: 0..MaxOffset (the code: any u8)
MaxOffset == 1
\* configured frame sizes: 2^0 .. 2^MaxFrameBits
MaxFrameBits == 1
\* configured frame table sizes: 1..MaxTable
MaxTable == 3
\* number of records of the address trace
MaxAccesses == 4
\* number of records of a logged, page-aligned address trace
MaxTrace == 4

(***************************************************************************)
(* Program constants.                                                      *)
(***************************************************************************)
\* Frame::new: page_id of a frame that was never assigned.  Stands for
\* usize::MAX, which no page number (a u8 widened to usize) ever equals.
USIZE_MAX == 2147483647
\* lib.rs: MASK_PAGE = 0x0000FF00, MASK_OFFSET = 0x000000FF
MASK_PAGE == 65280
MASK_OFFSET == 255

\* Option::None
None == "None"

Min(a, b) == IF a < b THEN a ELSE b
Max(a, b) == IF a > b THEN a ELSE b

RECURSIVE Pow2(_)
Pow2(n) == IF n = 0 THEN 1 ELSE 2 * Pow2(n - 1)

\* 2^16
Half == Pow2(16)

\* `x as u32` of a usize: the low 32 bits, taken as two 16-bit halves
AsU32(x) == (x % Half) + Half * ((x \div Half) % Half)

(***************************************************************************)
(* address.rs: VirtualAddress::from(u32).  The masks are contiguous bit    *)
(* fields, so mask-and-shift is division and remainder.                    *)
(***************************************************************************)
\* (value & MASK_PAGE) >> 8
NumberPage(value) == (value % (MASK_PAGE + MASK_OFFSET + 1)) \div (MASK_OFFSET + 1)
\* value & MASK_OFFSET
NumberOffset(value) == value % (MASK_OFFSET + 1)

\* `byte as i8`: two's complement reinterpretation
AsI8(byte) == IF byte >= 128 THEN byte - 256 ELSE byte

(***************************************************************************)
(* address.rs on a full u32.  A u32 is kept as its two 16-bit halves       *)
(* [hi, lo]: MASK_PAGE and MASK_OFFSET lie in the low half, and            *)
(* !(MASK_OFFSET | MASK_PAGE) = 0xFFFF0000 is the high half.               *)
(***************************************************************************)
\* a From that keeps only the bits under the two masks
VirtualAddressFromMasked(value) ==
    [number_page   |-> NumberPage(value.lo),
     number_offset |-> NumberOffset(value.lo),
     extra_bits    |-> 0]

\* VirtualAddress::from(value)
VirtualAddressFrom(value) ==
    [number_page   |-> NumberPage(value.lo),
     number_offset |-> NumberOffset(value.lo),
     extra_bits    |-> value.hi % Half]

\* an Into that recomposes page and offset only
VirtualAddressIntoLow(address) ==
    [hi |-> 0,
     lo |-> ((address.number_page * (MASK_OFFSET + 1)) % Half) + address.number_offset]

\* (&address).into(): a | b | c, the three shifted fields having no bit in
\* common
VirtualAddressInto(address) ==
    [hi |-> address.extra_bits % Half,
     lo |-> ((address.number_page * (MASK_OFFSET + 1)) % Half) + address.number_offset]

\* #[derive(PartialEq)]: field by field
VirtualAddressEq(a, b) ==
    /\ a.number_page = b.number_page
    /\ a.number_offset = b.number_offset
    /\ a.extra_bits = b.extra_bits

(***************************************************************************)
(* linked_hash_map::LinkedHashMap<usize, usize>, as the sequence of its    *)
(* entries <<key, value>> from front (oldest insertion) to back (newest).  *)
(***************************************************************************)
LhmKeys(map) == {map[i][1] : i \in 1..Len(map)}

LhmIndex(map, key) == CHOOSE i \in 1..Len(map) : map[i][1] = key

\* get(&key)
LhmGet(map, key) == IF key \in LhmKeys(map) THEN map[LhmIndex(map, key)][2] ELSE None

\* remove(&key): unlink the entry, if any
LhmRemove(map, key) == SelectSeq(map, LAMBDA e : e[1] # key)

\* an insert that appends without unlinking an existing entry of the key
LhmInsertAppend(map, key, value) == Append(map, <<key, value>>)

\* insert(key, value): an existing key is re-seated at the back with the
\* new value; a new key is appended at the back
LhmInsert(map, key, value) == Append(LhmRemove(map, key), <<key, value>>)

\* pop_back(): removes the last (most recently inserted) entry
LhmPopBack(map) == IF Len(map) = 0 THEN map ELSE SubSeq(map, 1, Len(map) - 1)

(***************************************************************************)
(* TLB { table_size, map }                                                 *)
(***************************************************************************)
TLBBuild(table_size) == [table_size |-> table_size, map |-> <<>>]

TLBFind(t, page_number) == LhmGet(t.map, page_number)

\* a cache_element that never makes room
TLBCacheElementNoPop(t, key, value) == [t EXCEPT !.map = LhmInsert(t.map, key, value)]

TLBCacheElement(t, key, value) ==
    LET popped == IF Len(t.map) = t.table_size THEN LhmPopBack(t.map) ELSE t.map
    IN  [t EXCEPT !.map = LhmInsert(popped, key, value)]

\* flush_element that leaves the entry in place
TLBFlushElementKeep(t, key) == t

\* the map after flush_element; the bool it returns is TLBHas before the call
TLBFlushElement(t, key) == [t EXCEPT !.map = LhmRemove(t.map, key)]

TLBHas(t, key) == key \in LhmKeys(t.map)

(***************************************************************************)
(* Fifo<T>(LinkedList<T>, usize, String): the list from its front to its   *)
(* back, and the length counter.                                           *)
(***************************************************************************)
FifoNew == [list |-> <<>>, len |-> 0]

\* an enqueue at the end dequeue takes from
FifoEnqueueBack(q, element) == [list |-> Append(q.list, element), len |-> q.len + 1]

\* self.1 += 1; push_front.  The counter is a usize: where the build does
\* not check overflow, usize::MAX + 1 is 0
FifoEnqueue(q, element) ==
    [list |-> <<element>> \o q.list,
     len  |-> IF q.len = USIZE_MAX THEN 0 ELSE q.len + 1]

\* a dequeue that yields the newest element
FifoHeadNewest(q) == IF Len(q.list) = 0 THEN None ELSE q.list[1]

\* the element pop_back yields
FifoHead(q) == IF Len(q.list) = 0 THEN None ELSE q.list[Len(q.list)]

\* self.1 -= 1; pop_back.  Where the build does not check overflow, 0 - 1
\* is usize::MAX; where it does, the subtraction panics (see FifoUnderflows)
FifoDequeue(q) ==
    [list |-> IF Len(q.list) = 0 THEN q.list ELSE SubSeq(q.list, 1, Len(q.list) - 1),
     len  |-> IF q.len = 0 THEN USIZE_MAX ELSE q.len - 1]

\* dequeue on a counter of 0: `self.1 -= 1` overflows
FifoUnderflows(q) == q.len = 0

(***************************************************************************)
(* Frame and FrameTable                                                    *)
(***************************************************************************)
FrameNew(frame_size) ==
    [buffer |-> [j \in 0..(frame_size - 1) |-> 0], page_id |-> USIZE_MAX]

RECURSIVE EnqueueAll(_, _, _)
EnqueueAll(q, index, table_size) ==
    IF index >= table_size THEN q
    ELSE EnqueueAll(FifoEnqueue(q, index), index + 1, table_size)

FrameTableBuild(table_size, frame_size) ==
    [table_size |-> table_size,
     frame_size |-> frame_size,
     entries    |-> [i \in 0..(table_size - 1) |-> FrameNew(frame_size)],
     available  |-> EnqueueAll(FifoNew, 0, table_size),
     victimizer |-> FifoNew]

\* a reaper that hands the victim out again without taking it off the
\* victimizer queue
ReaperNoDequeue(ft) ==
    [ft EXCEPT !.available = FifoEnqueue(ft.available, FifoHead(ft.victimizer))]

\* reaper: the oldest victim becomes available again
Reaper(ft) ==
    [ft EXCEPT !.victimizer = FifoDequeue(ft.victimizer),
               !.available  = FifoEnqueue(ft.available, FifoHead(ft.victimizer))]

\* the frame table as allocate finds it after its optional reaper call
AfterReaper(ft) == IF ft.victimizer.len = ft.table_size THEN Reaper(ft) ELSE ft

\* the index allocate returns
AllocIndex(ft) == FifoHead(AfterReaper(ft).available)

\* an allocate that does not put the index it hands out on the victimizer queue
TakeAvailableForget(ft) ==
    [ft EXCEPT !.available = FifoDequeue(ft.available)]

\* available.dequeue() and victimizer.enqueue(alloc_index)
TakeAvailable(ft) ==
    [ft EXCEPT !.available  = FifoDequeue(ft.available),
               !.victimizer = FifoEnqueue(ft.victimizer, FifoHead(ft.available))]

\* the frame table allocate leaves behind
Allocate(ft) == TakeAvailable(AfterReaper(ft))

(***************************************************************************)
(* PageTable(HashMap<usize, Page>): a function on the inserted keys.       *)
(***************************************************************************)
PageTableBuild == <<>>

PageTableHas(pt, id) == id \in DOMAIN pt

\* an insert that starts the table afresh
PageTableInsertFresh(pt, id, page) == [k \in {id} |-> page]

PageTableInsert(pt, id, page) ==
    [k \in (DOMAIN pt) \cup {id} |-> IF k = id THEN page ELSE pt[k]]

\* an invalidation that leaves the valid flag set
PageTableInvalidateKeep(pt, id) == pt

\* an invalidation that clears the valid flag of every entry
PageTableInvalidateAll(pt, id) ==
    [k \in DOMAIN pt |-> [pt[k] EXCEPT !.valid = FALSE]]

\* find_mut(id) followed by page.valid = false
PageTableInvalidate(pt, id) ==
    IF PageTableHas(pt, id) THEN [pt EXCEPT ![id].valid = FALSE] ELSE pt

(***************************************************************************)
(* Storage(BufReader<File>): the backing store file.  Its contents are the *)
(* bytes StoreByte(0), StoreByte(1), ... ; its length is part of the run's *)
(* configuration (file_storage names any file).                            *)
(***************************************************************************)
StoreByte(i) == (i * 67 + 200) % 256

\* the store length at which frame size MaxOffset + 1 covers every page
CanonicalStoreLen == (MaxPage + 1) * (MaxOffset + 1)

StoreLens == {CanonicalStoreLen - 1, CanonicalStoreLen}

BufferLen(buffer) == Cardinality(DOMAIN buffer)

\* Storage::read when seek and read return Ok: seek to buffer.len() *
\* seek_multiplier, then ONE read call, whose byte count is dropped.  read
\* copies the bytes the file still has from that position, at most
\* buffer.len() of them, and leaves the rest of the buffer as it was.
StorageRead(store_len, seek_multiplier, buffer) ==
    LET seek_pos == BufferLen(buffer) * seek_multiplier
        n        == Min(BufferLen(buffer), Max(0, store_len - seek_pos))
    IN  [j \in DOMAIN buffer |-> IF j < n THEN StoreByte(seek_pos + j) ELSE buffer[j]]

(***************************************************************************)
(* Tracker: the counters access and retrieve_frame touch.                  *)
(***************************************************************************)
TrackerNew ==
    [attempted_memory_accesses |-> 0, tlb_hits |-> 0, page_hits |-> 0, tlb_flushes |-> 0,
     correct_memory_accesses |-> 0]

(***************************************************************************)
(* VirtualMemory { tlb, pages, frames, storage, tracker }                  *)
(***************************************************************************)
VirtualMemoryBuild(tlb_size, frame_table_size, frame_size) ==
    [tlb     |-> TLBBuild(tlb_size),
     pages   |-> PageTableBuild,
     frames  |-> FrameTableBuild(frame_table_size, frame_size),
     tracker |-> TrackerNew]

\* a retrieve_frame that reclaims the frame without telling the page table
\* or the TLB
InvalidateOwnerSkip(vm, page_id) == vm

\* a retrieve_frame that counts a flush whether or not the TLB held the page
InvalidateOwnerAlwaysCount(vm, page_id) ==
    IF PageTableHas(vm.pages, page_id)
    THEN [vm EXCEPT !.pages = PageTableInvalidate(@, page_id),
                    !.tlb   = TLBFlushElement(@, page_id),
                    !.tracker.tlb_flushes = @ + 1]
    ELSE vm

\* a retrieve_frame that flushes the previous owner from the TLB but leaves
\* its page-table entry valid
InvalidateOwnerFlushOnly(vm, page_id) ==
    IF PageTableHas(vm.pages, page_id)
    THEN [vm EXCEPT !.tlb   = TLBFlushElement(@, page_id),
                    !.tracker.tlb_flushes =
                        IF TLBHas(vm.tlb, page_id) THEN @ + 1 ELSE @]
    ELSE vm

\* retrieve_frame, the if-let on the page id the allocated frame carries:
\* when the page table has an entry for it, mark it invalid and flush it
\* from the TLB, counting the flush if the TLB held it
InvalidateOwner(vm, page_id) ==
    IF PageTableHas(vm.pages, page_id)
    THEN [vm EXCEPT !.pages = PageTableInvalidate(@, page_id),
                    !.tlb   = TLBFlushElement(@, page_id),
                    !.tracker.tlb_flushes =
                        IF TLBHas(vm.tlb, page_id) THEN @ + 1 ELSE @]
    ELSE vm

\* a retrieve_frame that does not record the new owner on the frame
LoadFrameNoOwner(vm, store_len, page_number, read_ok, frame_index) ==
    [vm EXCEPT
        !.frames.entries[frame_index] =
            [page_id |-> @.page_id,
             buffer  |-> IF read_ok
                         THEN StorageRead(store_len, page_number, @.buffer)
                         ELSE @.buffer],
        !.pages = IF read_ok
                  THEN PageTableInsert(@, page_number,
                                       [frame_index |-> frame_index, valid |-> TRUE])
                  ELSE @]

\* retrieve_frame, from `frame.page_id = page_number` on: the owner is set
\* first, then the read; only a read that returned Ok is followed by the
\* insert into the page table
LoadFrame(vm, store_len, page_number, read_ok, frame_index) ==
    [vm EXCEPT
        !.frames.entries[frame_index] =
            [page_id |-> page_number,
             buffer  |-> IF read_ok
                         THEN StorageRead(store_len, page_number, @.buffer)
                         ELSE @.buffer],
        !.pages = IF read_ok
                  THEN PageTableInsert(@, page_number,
                                       [frame_index |-> frame_index, valid |-> TRUE])
                  ELSE @]

\* the page id carried by the frame that allocate is about to hand out
VictimOwner(vm) == vm.frames.entries[AllocIndex(vm.frames)].page_id

\* the engine retrieve_frame(page_number) leaves behind; read_ok: whether
\* seek and read return Ok.  It returns Ok(AllocIndex(vm.frames)) or the Err.
RetrieveFrame(vm, store_len, page_number, read_ok) ==
    LoadFrame(InvalidateOwner([vm EXCEPT !.frames = Allocate(@)], VictimOwner(vm)),
              store_len, page_number, read_ok, AllocIndex(vm.frames))

\* an access that goes from the TLB miss straight to retrieve_frame
PathOfNoPageTable(vm, page_number) ==
    IF TLBHas(vm.tlb, page_number) THEN "tlb_hit" ELSE "fault"

\* which arm of the match in access a page number takes
PathOf(vm, page_number) ==
    IF TLBHas(vm.tlb, page_number) THEN "tlb_hit"
    ELSE IF PageTableHas(vm.pages, page_number) /\ vm.pages[page_number].valid
         THEN "page_hit"
         ELSE "fault"

\* the frame_index the match in access yields (on the fault arm: the one
\* retrieve_frame allocates)
FrameIndexOf(vm, page_number) ==
    CASE PathOf(vm, page_number) = "tlb_hit"  -> TLBFind(vm.tlb, page_number)
      [] PathOf(vm, page_number) = "page_hit" -> vm.pages[page_number].frame_index
      [] OTHER                                -> AllocIndex(vm.frames)

\* a TLB hit arm that does not count the hit
AccessTlbHitUncounted(vm) == vm

\* the TLB hit arm
AccessTlbHit(vm) == [vm EXCEPT !.tracker.tlb_hits = @ + 1]

\* a page hit arm that counts the hit twice
AccessPageHitTwice(vm, page_number) ==
    [vm EXCEPT !.tracker.page_hits = @ + 2,
               !.tlb = TLBCacheElement(@, page_number, vm.pages[page_number].frame_index)]

\* a page hit arm that counts the hit and leaves the TLB alone
AccessPageHitNoCache(vm, page_number) ==
    [vm EXCEPT !.tracker.page_hits = @ + 1]

\* a page hit arm that also counts a TLB flush
AccessPageHitFlushing(vm, page_number) ==
    [vm EXCEPT !.tracker.page_hits = @ + 1,
               !.tracker.tlb_flushes = @ + 1,
               !.tlb = TLBCacheElement(@, page_number, vm.pages[page_number].frame_index)]

\* the page hit arm
AccessPageHit(vm, page_number) ==
    [vm EXCEPT !.tracker.page_hits = @ + 1,
               !.tlb = TLBCacheElement(@, page_number, vm.pages[page_number].frame_index)]

\* a fault arm that caches the frame even when retrieve_frame returned Err
CacheRetrievedAlways(vm, page_number, read_ok, frame_index) ==
    [vm EXCEPT !.tlb = TLBCacheElement(@, page_number, frame_index)]

\* a fault arm that never caches the frame it retrieved
CacheRetrievedNever(vm, page_number, read_ok, frame_index) == vm

\* the fault arm: retrieve_frame(..)? and then tlb.cache_element
CacheRetrieved(vm, page_number, read_ok, frame_index) ==
    IF read_ok
    THEN [vm EXCEPT !.tlb = TLBCacheElement(@, page_number, frame_index)]
    ELSE vm

AccessFault(vm, store_len, page_number, read_ok) ==
    CacheRetrieved(RetrieveFrame(vm, store_len, page_number, read_ok),
                   page_number, read_ok, AllocIndex(vm.frames))

\* the match in access, entered with attempted_memory_accesses incremented
AccessArm(vm, store_len, page_number, read_ok) ==
    CASE PathOf(vm, page_number) = "tlb_hit"  -> AccessTlbHit(vm)
      [] PathOf(vm, page_number) = "page_hit" -> AccessPageHit(vm, page_number)
      [] OTHER -> AccessFault(vm, store_len, page_number, read_ok)

\* the engine access(VirtualAddress::from(value)) leaves behind
AccessEngine(vm, store_len, value, read_ok) ==
    AccessArm([vm EXCEPT !.tracker.attempted_memory_accesses = @ + 1],
              store_len, NumberPage(value), read_ok)

\* how access ends on the engine `after` it has left: Err when the read
\* failed, a panic of Frame::index when the offset is past the end of the
\* buffer, Ok(AccessResult) otherwise
ResultKind(after, value, read_ok, frame_index) ==
    IF ~read_ok THEN "Err"
    ELSE IF NumberOffset(value) >= BufferLen(after.frames.entries[frame_index].buffer)
         THEN "Panic"
         ELSE "Ok"

\* a physical address that leaves the offset out
PhysicalAddressNoOffset(after, value, frame_index) ==
    AsU32(frame_index * after.frames.frame_size)

\* AccessResult.physical_address
PhysicalAddress(after, value, frame_index) ==
    AsU32((frame_index * after.frames.frame_size) + NumberOffset(value))

\* AccessResult.value
ValueRead(after, value, frame_index) ==
    AsI8(after.frames.entries[frame_index].buffer[NumberOffset(value)])

\* the outcome of access: path taken, frame resolved, the page id the
\* allocated frame carried (prev, on the fault path), and the AccessResult
Outcome(after, value, read_ok, path, frame_index, prev) ==
    [kind             |-> ResultKind(after, value, read_ok, frame_index),
     virtual_address  |-> value,
     path             |-> path,
     frame_index      |-> frame_index,
     prev             |-> prev,
     physical_address |-> IF ResultKind(after, value, read_ok, frame_index) = "Ok"
                          THEN PhysicalAddress(after, value, frame_index) ELSE 0,
     value            |-> IF ResultKind(after, value, read_ok, frame_index) = "Ok"
                          THEN ValueRead(after, value, frame_index) ELSE 0]

(***************************************************************************)
(* Config { size_table, size_tlb, size_frame }: the fields validate reads. *)
(***************************************************************************)
RECURSIVE Log2Floor(_)
Log2Floor(x) == IF x <= 1 THEN 0 ELSE 1 + Log2Floor(x \div 2)

\* f64::from(x).log2().fract() != 0.0 for a u32 x: log2(0) is -inf, whose
\* fract is NaN, and NaN != 0.0 holds; for x >= 1 the logarithm is a whole
\* number exactly when x = 2^floor(log2 x)
Log2FractNonZero(x) == IF x = 0 THEN TRUE ELSE Pow2(Log2Floor(x)) # x

\* a validate that lets a TLB larger than the frame table through
ValidateReturnsLax(cfg) ==
    IF cfg.size_tlb = 0
    THEN FALSE
    ELSE ~Log2FractNonZero(cfg.size_frame)

\* whether validate returns (TRUE) or calls process::exit(1) (FALSE)
ValidateReturns(cfg) ==
    IF cfg.size_tlb = 0 \/ cfg.size_tlb > cfg.size_table
    THEN FALSE
    ELSE ~Log2FractNonZero(cfg.size_frame)

\* the exit code of a process that has not exited
NoExit == -1

(***************************************************************************)
(* State                                                                   *)
(***************************************************************************)
VARIABLES
    tlb,        \* VirtualMemory.tlb
    pages,      \* VirtualMemory.pages
    frames,     \* VirtualMemory.frames
    tracker,    \* VirtualMemory.tracker
    storage,    \* length in bytes of the backing store file
    running,    \* FALSE once the replay loop has panicked
    last,       \* outcome of the latest access (kind "None" before the first)
    history,    \* page numbers replayed so far, in order (logged replays)
    config,     \* Config: size_tlb, size_table, size_frame
    exit_code,  \* the code the process ends with, NoExit before that
    loads,      \* what retrieve_frame has done so far: calls, reclaims, pages read
    runner      \* run_simulation: latest validation entry, records reported on stderr

vars == <<tlb, pages, frames, tracker, storage, running, last, history,
          config, exit_code, loads, runner>>

Engine == [tlb |-> tlb, pages |-> pages, frames |-> frames, tracker |-> tracker]

\* virtual addresses of the address trace
VAddrs == {p * (MASK_OFFSET + 1) + o : p \in 0..MaxPage, o \in 0..MaxOffset}

\* virtual addresses of a logged trace: the first byte of each page
TraceVAddrs == {p * (MASK_OFFSET + 1) : p \in 0..MaxPage}

FrameSizes == {Pow2(k) : k \in 0..MaxFrameBits}

NoResult ==
    [kind |-> "None", virtual_address |-> 0, path |-> "none", frame_index |-> 0,
     prev |-> USIZE_MAX, physical_address |-> 0, value |-> 0]

\* nothing retrieved yet
LoadsNew == [faults |-> 0, evictions |-> 0, pages |-> {}]

\* retrieve_frame seen from outside: one call per fault, a reclaim when the
\* allocated frame had an owner, the page read unless the store read failed
Loaded(ld, out) ==
    IF out.path = "fault"
    THEN [faults    |-> ld.faults + 1,
          evictions |-> ld.evictions + (IF out.prev # USIZE_MAX THEN 1 ELSE 0),
          pages     |-> IF out.kind = "Err" THEN ld.pages
                        ELSE ld.pages \cup {NumberPage(out.virtual_address)}]
    ELSE ld

\* no validation entry read, nothing reported
NoEntry == [virtual_address |-> 0, physical_address |-> 0, value |-> 0]
RunnerNew == [expected |-> NoEntry, failures |-> <<>>, unpaired |-> FALSE]

\* Simulation::build on a configuration Config::validate accepts
Install(vm, store_len) ==
    /\ tlb = vm.tlb
    /\ pages = vm.pages
    /\ frames = vm.frames
    /\ tracker = vm.tracker
    /\ storage = store_len
    /\ running = TRUE
    /\ last = NoResult
    /\ history = <<>>
    /\ loads = LoadsNew
    /\ runner = RunnerNew

\* the configuration of the run, which validate has let through
Configured(size_tlb, size_table, size_frame) ==
    /\ config = [size_tlb |-> size_tlb, size_table |-> size_table,
                 size_frame |-> size_frame]
    /\ exit_code = NoExit

Init ==
    \E size_table \in 1..MaxTable, size_frame \in FrameSizes, store_len \in StoreLens :
      \E size_tlb \in 1..size_table :
        /\ Install(VirtualMemoryBuild(size_tlb, size_table, size_frame), store_len)
        /\ Configured(size_tlb, size_table, size_frame)

\* the loop body of run_simulation once access has run: unwrap() panics on
\* Err, so the loop goes on only after Ok
Commit(after, out, value, log) ==
    /\ tlb' = after.tlb
    /\ pages' = after.pages
    /\ frames' = after.frames
    /\ tracker' = after.tracker
    /\ last' = out
    /\ running' = (out.kind = "Ok")
    /\ history' = IF log THEN Append(history, NumberPage(value)) ELSE history
    /\ loads' = Loaded(loads, out)
    /\ UNCHANGED <<storage, config, exit_code, runner>>

Observe(after, value, read_ok, path, frame_index, prev, log) ==
    Commit(after, Outcome(after, value, read_ok, path, frame_index, prev), value, log)

\* one iteration of the loop of run_simulation: access(..).unwrap(); a
\* logged replay also appends the page number to history
Replay(value, read_ok, log) ==
    /\ running
    /\ tracker.attempted_memory_accesses < (IF log THEN MaxTrace ELSE MaxAccesses)
    /\ Observe(AccessEngine(Engine, storage, value, read_ok), value, read_ok,
               PathOf(Engine, NumberPage(value)),
               FrameIndexOf(Engine, NumberPage(value)),
               IF PathOf(Engine, NumberPage(value)) = "fault"
               THEN VictimOwner(Engine) ELSE USIZE_MAX,
               log)

TlbHit(value, log) ==
    /\ PathOf(Engine, NumberPage(value)) = "tlb_hit"
    /\ Replay(value, TRUE, log)

PageHit(value, log) ==
    /\ PathOf(Engine, NumberPage(value)) = "page_hit"
    /\ Replay(value, TRUE, log)

PageFault(value, log) ==
    /\ PathOf(Engine, NumberPage(value)) = "fault"
    /\ Replay(value, TRUE, log)

PageFaultReadError(value, log) ==
    /\ PathOf(Engine, NumberPage(value)) = "fault"
    /\ Replay(value, FALSE, log)

Next ==
    \E value \in VAddrs :
        \/ TlbHit(value, FALSE)
        \/ PageHit(value, FALSE)
        \/ PageFault(value, FALSE)
        \/ PageFaultReadError(value, FALSE)

Spec == Init /\ [][Next]_vars

\* the same loop over a logged trace of page-aligned addresses
NextTrace ==
    \E value \in TraceVAddrs :
        \/ TlbHit(value, TRUE)
        \/ PageHit(value, TRUE)
        \/ PageFault(value, TRUE)
        \/ PageFaultReadError(value, TRUE)

SpecTrace == Init /\ [][NextTrace]_vars

(***************************************************************************)
(* The TLB on its own, driven as tlb_tests drives it: cache_element and    *)
(* flush_element with arbitrary keys, on a TLB of any size 1..MaxTable.    *)
(***************************************************************************)
\* keys 0..MaxTlbKey, values 0..MaxTlbValue
MaxTlbKey == 3
MaxTlbValue == 1

InitTlb ==
    \E size \in 1..MaxTable :
        /\ tlb = TLBBuild(size)
        /\ pages = PageTableBuild
        /\ frames = FrameTableBuild(size, 1)
        /\ tracker = TrackerNew
        /\ storage = 0
        /\ running = TRUE
        /\ last = NoResult
        /\ history = <<>>
        /\ loads = LoadsNew
        /\ runner = RunnerNew
        /\ Configured(size, size, 1)

\* the call just made on the TLB and the map it found
TlbCall(kind, key, value) ==
    [kind |-> kind, key |-> key, value |-> value, before |-> tlb.map]

TlbCache(key, value) ==
    /\ tlb' = TLBCacheElement(tlb, key, value)
    /\ last' = TlbCall("cache", key, value)
    /\ UNCHANGED <<pages, frames, tracker, storage, running, history,
                   config, exit_code, loads, runner>>

TlbFlush(key) ==
    /\ tlb' = TLBFlushElement(tlb, key)
    /\ last' = TlbCall("flush", key, 0)
    /\ UNCHANGED <<pages, frames, tracker, storage, running, history,
                   config, exit_code, loads, runner>>

NextTlb ==
    \E key \in 0..MaxTlbKey :
        \/ \E value \in 0..MaxTlbValue : TlbCache(key, value)
        \/ TlbFlush(key)

SpecTlb == InitTlb /\ [][NextTlb]_vars

(***************************************************************************)
(* Startup: a parsed Config goes through validate, which exits with code 1 *)
(* or returns; run_simulation then builds the engine and replays a logged  *)
(* trace.  Any three sizes can be configured: 0..MaxTable for the two      *)
(* table sizes, 0..2^MaxFrameBits + 1 for the frame size.                  *)
(***************************************************************************)
Configs ==
    [size_tlb : 0..MaxTable, size_table : 0..MaxTable,
     size_frame : 0..(Pow2(MaxFrameBits) + 1)]

\* no engine yet
Unbuilt == VirtualMemoryBuild(0, 0, 0)

\* Config::parse has returned and validate has not run
Parsed ==
    /\ ~running
    /\ last = NoResult
    /\ exit_code = NoExit

InitConfig ==
    \E cfg \in Configs, store_len \in StoreLens :
        /\ tlb = Unbuilt.tlb
        /\ pages = Unbuilt.pages
        /\ frames = Unbuilt.frames
        /\ tracker = Unbuilt.tracker
        /\ storage = store_len
        /\ running = FALSE
        /\ last = NoResult
        /\ history = <<>>
        /\ config = cfg
        /\ exit_code = NoExit
        /\ loads = LoadsNew
        /\ runner = RunnerNew

\* validate calls process::exit(1)
ValidateExit ==
    /\ Parsed
    /\ ~ValidateReturns(config)
    /\ exit_code' = 1
    /\ UNCHANGED <<tlb, pages, frames, tracker, storage, running, last, history,
                   config, loads, runner>>

\* validate returns and run_simulation builds the engine
ValidateBuild ==
    /\ Parsed
    /\ ValidateReturns(config)
    /\ tlb' = VirtualMemoryBuild(config.size_tlb, config.size_table, config.size_frame).tlb
    /\ pages' = VirtualMemoryBuild(config.size_tlb, config.size_table, config.size_frame).pages
    /\ frames' = VirtualMemoryBuild(config.size_tlb, config.size_table, config.size_frame).frames
    /\ tracker' = VirtualMemoryBuild(config.size_tlb, config.size_table, config.size_frame).tracker
    /\ running' = TRUE
    /\ UNCHANGED <<storage, last, history, config, exit_code, loads, runner>>

NextConfig ==
    \/ ValidateExit
    \/ ValidateBuild
    \/ \E value \in TraceVAddrs :
           \/ TlbHit(value, TRUE)
           \/ PageHit(value, TRUE)
           \/ PageFault(value, TRUE)
           \/ PageFaultReadError(value, TRUE)

SpecConfig == InitConfig /\ [][NextConfig]_vars

(***************************************************************************)
(* run_simulation with its validation file: each iteration takes one       *)
(* address and one validation entry from the zipped readers, runs the      *)
(* access, compares, counts or reports; when the zip is exhausted the      *)
(* tracker is printed and the process ends with 2 or returns.              *)
(***************************************************************************)
\* at most MaxRecords records are replayed, over pages 0..MaxRunPage
MaxRecords == 3
MaxRunPage == 1

RunVAddrs == {p * (MASK_OFFSET + 1) : p \in 0..MaxRunPage}

\* what a validation file may hold for an address: the address itself or one
\* differing in the extra bits, any physical address, the byte of the store
\* image at the address or another value
ValidationEntries(value, size_frame) ==
    [virtual_address  : {value, value + Half},
     physical_address : {0, 1},
     value            : {AsI8(StoreByte(NumberPage(value) * size_frame
                                        + NumberOffset(value))), 0}]

\* access_result == validation_entry
ResultMatches(out, entry) ==
    /\ out.virtual_address = entry.virtual_address
    /\ out.value = entry.value

CountedAlways(tr, out, entry) ==
    [tr EXCEPT !.correct_memory_accesses = @ + 1]

\* the true arm of the match
Counted(tr, out, entry) ==
    IF ResultMatches(out, entry)
    THEN [tr EXCEPT !.correct_memory_accesses = @ + 1]
    ELSE tr

\* the false arm of the match: record i is reported on stderr
Reported(rn, out, entry, i) ==
    [expected |-> entry,
     failures |-> IF ResultMatches(out, entry) THEN rn.failures
                  ELSE Append(rn.failures, i),
     unpaired |-> FALSE]

\* the end of run_simulation: exit(2) on any uncounted access, else return
ExitStatus(tr) ==
    IF tr.attempted_memory_accesses # tr.correct_memory_accesses THEN 2 ELSE 0

\* one iteration: unwrap() panics unless the access returned Ok, and the
\* comparison is reached only after it
RunCommit(after, out, entry) ==
    /\ tlb' = after.tlb
    /\ pages' = after.pages
    /\ frames' = after.frames
    /\ tracker' = IF out.kind = "Ok" THEN Counted(after.tracker, out, entry)
                  ELSE after.tracker
    /\ last' = out
    /\ running' = (out.kind = "Ok")
    /\ loads' = Loaded(loads, out)
    /\ runner' = IF out.kind = "Ok"
                 THEN Reported(runner, out, entry, tracker.attempted_memory_accesses)
                 ELSE [runner EXCEPT !.expected = entry]
    /\ UNCHANGED <<storage, history, config, exit_code>>

RunAccess(value, entry, read_ok) ==
    /\ running
    /\ tracker.attempted_memory_accesses < MaxRecords
    /\ RunCommit(AccessEngine(Engine, storage, value, read_ok),
                 Outcome(AccessEngine(Engine, storage, value, read_ok), value, read_ok,
                         PathOf(Engine, NumberPage(value)),
                         FrameIndexOf(Engine, NumberPage(value)),
                         IF PathOf(Engine, NumberPage(value)) = "fault"
                         THEN VictimOwner(Engine) ELSE USIZE_MAX),
                 entry)

\* a record whose access returns or panics on the buffer index
Record(value, entry) == RunAccess(value, entry, TRUE)

\* a record whose store read fails
RecordReadError(value, entry) ==
    /\ PathOf(Engine, NumberPage(value)) = "fault"
    /\ RunAccess(value, entry, FALSE)

\* the zip yields None: the address reader is at its end (unpaired FALSE), or
\* it gave an address and the validation reader is at its end (unpaired TRUE)
Exhausted(unpaired) ==
    /\ running
    /\ running' = FALSE
    /\ exit_code' = ExitStatus(tracker)
    /\ runner' = [runner EXCEPT !.unpaired = unpaired]
    /\ UNCHANGED <<tlb, pages, frames, tracker, storage, last, history, config, loads>>

NextRun ==
    \/ \E value \in RunVAddrs :
         \E entry \in ValidationEntries(value, config.size_frame) :
           \/ Record(value, entry)
           \/ RecordReadError(value, entry)
    \/ \E unpaired \in BOOLEAN : Exhausted(unpaired)

\* the engine of the run: a one-entry TLB over any frame table
InitRun ==
    \E size_table \in 1..MaxTable, size_frame \in FrameSizes, store_len \in StoreLens :
        /\ Install(VirtualMemoryBuild(1, size_table, size_frame), store_len)
        /\ Configured(1, size_table, size_frame)

SpecRun == InitRun /\ [][NextRun]_vars

(***************************************************************************)
(* VirtualAddress on its own, driven as address_tests drives it: a u32 is  *)
(* decoded and the address recomposed.  The u32 values have their page,    *)
(* offset and extra bits at the low and the high end of each field, and    *)
(* the fields of the value of address_tests::from.                         *)
(***************************************************************************)
\* extra bits 0..MaxExtra from either end; MaxConversions conversions a run
MaxExtra == 0
MaxConversions == 2

\* 0xabcd1234
TestExtra == 43981
TestPage == 18
TestOffset == 52

AddressExtras ==
    (0..MaxExtra) \cup {(Half - 1) - e : e \in 0..MaxExtra} \cup {TestExtra}
AddressPages == {0, 1, MASK_OFFSET, TestPage}
AddressOffsets == {0, MASK_OFFSET, TestOffset}

U32Values ==
    {[hi |-> e, lo |-> p * (MASK_OFFSET + 1) + o] :
        e \in AddressExtras, p \in AddressPages, o \in AddressOffsets}

InitAddress ==
    /\ Install(VirtualMemoryBuild(1, 1, 1), 0)
    /\ Configured(1, 1, 1)

\* let address = VirtualAddress::from(original); let into = (&address).into();
\* history keeps the conversions made
Convert(original) ==
    /\ Len(history) < MaxConversions
    /\ history' = Append(history,
                         [original |-> original,
                          address  |-> VirtualAddressFrom(original),
                          into     |-> VirtualAddressInto(VirtualAddressFrom(original))])
    /\ UNCHANGED <<tlb, pages, frames, tracker, storage, running, last,
                   config, exit_code, loads, runner>>

NextAddress == \E original \in U32Values : Convert(original)

SpecAddress == InitAddress /\ [][NextAddress]_vars

(***************************************************************************)
(* The engine used by a caller that handles the Err of access instead of   *)
(* unwrapping it: after a store read has failed the same engine goes on    *)
(* serving accesses.                                                       *)
(***************************************************************************)
\* access has returned Ok or Err and the caller goes on
ResumeCommit(after, out) ==
    /\ tlb' = after.tlb
    /\ pages' = after.pages
    /\ frames' = after.frames
    /\ tracker' = after.tracker
    /\ last' = out
    /\ running' = (out.kind # "Panic")
    /\ loads' = Loaded(loads, out)
    /\ UNCHANGED <<storage, history, config, exit_code, runner>>

ResumeAccess(value, read_ok) ==
    /\ running
    /\ tracker.attempted_memory_accesses < MaxTrace
    /\ ResumeCommit(AccessEngine(Engine, storage, value, read_ok),
                    Outcome(AccessEngine(Engine, storage, value, read_ok), value, read_ok,
                            PathOf(Engine, NumberPage(value)),
                            FrameIndexOf(Engine, NumberPage(value)),
                            IF PathOf(Engine, NumberPage(value)) = "fault"
                            THEN VictimOwner(Engine) ELSE USIZE_MAX))

\* an access that returns Ok
ResumeOk(value) == ResumeAccess(value, TRUE)

\* an access whose store read fails
ResumeErr(value) ==
    /\ PathOf(Engine, NumberPage(value)) = "fault"
    /\ ResumeAccess(value, FALSE)

NextResume ==
    \E value \in TraceVAddrs :
        \/ ResumeOk(value)
        \/ ResumeErr(value)

SpecResume == Init /\ [][NextResume]_vars

(***************************************************************************)
(* The Fifo on its own, driven as fifo_tests::enqueue_dequeue drives it:   *)
(* the available queue of a frame table of no frames takes enqueue and     *)
(* dequeue calls in any order.  history keeps the values enqueued, last    *)
(* the latest call, what it returned and the number of elements dequeued   *)
(* so far.  A dequeue on a counter of 0 panics in a build with overflow    *)
(* checks and wraps the counter in a build without.                        *)
(***************************************************************************)
\* at most MaxEnqueued enqueue calls, of the values 0..MaxElement
MaxEnqueued == 4
MaxElement == 1

InitFifo ==
    /\ Install([VirtualMemoryBuild(1, 1, 1) EXCEPT !.frames = FrameTableBuild(0, 1)], 0)
    /\ Configured(1, 1, 1)

\* the number of elements dequeue has returned so far
Dequeued == IF last.kind \in {"enqueue", "dequeue"} THEN last.dequeued ELSE 0

FifoCall(kind, returned, dequeued) ==
    [kind |-> kind, returned |-> returned, dequeued |-> dequeued]

\* enqueue(element)
Enqueue(element) ==
    /\ running
    /\ Len(history) < MaxEnqueued
    /\ frames' = [frames EXCEPT !.available = FifoEnqueue(@, element)]
    /\ history' = Append(history, element)
    /\ last' = FifoCall("enqueue", <<>>, Dequeued)
    /\ UNCHANGED <<tlb, pages, tracker, storage, running, config, exit_code,
                   loads, runner>>

\* dequeue() on a counter above 0: Some(element) or, the list being empty,
\* None; the calls on an empty list are capped at MaxEnqueued past a wrap
Dequeue ==
    /\ running
    /\ ~FifoUnderflows(frames.available)
    /\ \/ Len(frames.available.list) > 0
       \/ frames.available.len >= USIZE_MAX - MaxEnqueued
    /\ frames' = [frames EXCEPT !.available = FifoDequeue(@)]
    /\ last' = IF Len(frames.available.list) = 0
               THEN FifoCall("dequeue", <<>>, Dequeued)
               ELSE FifoCall("dequeue", <<FifoHead(frames.available)>>, Dequeued + 1)
    /\ UNCHANGED <<tlb, pages, tracker, storage, running, history, config,
                   exit_code, loads, runner>>

\* dequeue() on a counter of 0, overflow checks on: panic
DequeuePanics ==
    /\ running
    /\ FifoUnderflows(frames.available)
    /\ running' = FALSE
    /\ UNCHANGED <<tlb, pages, frames, tracker, storage, last, history, config,
                   exit_code, loads, runner>>

\* dequeue() on a counter of 0, overflow checks off: the counter wraps and
\* pop_back yields what the list holds
DequeueWraps ==
    /\ running
    /\ FifoUnderflows(frames.available)
    /\ frames' = [frames EXCEPT !.available = FifoDequeue(@)]
    /\ last' = IF Len(frames.available.list) = 0
               THEN FifoCall("dequeue", <<>>, Dequeued)
               ELSE FifoCall("dequeue", <<FifoHead(frames.available)>>, Dequeued + 1)
    /\ UNCHANGED <<tlb, pages, tracker, storage, running, history, config,
                   exit_code, loads, runner>>

NextFifo ==
    \/ \E element \in 0..MaxElement : Enqueue(element)
    \/ Dequeue
    \/ DequeuePanics
    \/ DequeueWraps

SpecFifo == InitFifo /\ [][NextFifo]_vars

(***************************************************************************)
(* Properties                                                              *)
(***************************************************************************)
FrameIds == DOMAIN frames.entries

\* the page and offset decoded from the latest access
LastPage == NumberPage(last.virtual_address)
LastOffset == NumberOffset(last.virtual_address)

\* whether the backing store file has a byte at absolute offset i
StoreHas(i) == 0 <= i /\ i < storage

\* the keys of the TLB from front to back
TlbOrder == [i \in 1..Len(tlb.map) |-> tlb.map[i][1]]

\* C1: every successful access returns the signed reinterpretation of the
\* backing store's byte at absolute offset page * frame_size + offset.
C1_ValueIsStoreByte ==
    last.kind = "Ok" =>
        /\ StoreHas(LastPage * frames.frame_size + LastOffset)
        /\ last.value = AsI8(StoreByte(LastPage * frames.frame_size + LastOffset))

\* C2: for every TLB entry (p -> f), frame f records p as its owner and the
\* page table holds p -> (frame_index = f, valid = true).
C2_TlbEntriesCoherent ==
    \A i \in 1..Len(tlb.map) :
        /\ tlb.map[i][2] \in FrameIds
        /\ frames.entries[tlb.map[i][2]].page_id = tlb.map[i][1]
        /\ PageTableHas(pages, tlb.map[i][1])
        /\ pages[tlb.map[i][1]] = [frame_index |-> tlb.map[i][2], valid |-> TRUE]

\* C2 witness: a frame was reclaimed and its owner flushed from the TLB, and
\* a page that is still resident was dropped from a TLB at capacity.
C2_Witness ==
    /\ running
    /\ Len(tlb.map) = tlb.table_size
    /\ tlb.table_size >= 2
    /\ tracker.tlb_flushes >= 1
    /\ \E p \in DOMAIN pages : ~pages[p].valid
    /\ \E p \in DOMAIN pages : pages[p].valid /\ ~TLBHas(tlb, p)

\* C3: every valid page-table entry points at a frame that records that page
\* as its owner.
C3_ValidPagesOwnTheirFrame ==
    \A p \in DOMAIN pages :
        pages[p].valid =>
            /\ pages[p].frame_index \in FrameIds
            /\ frames.entries[pages[p].frame_index].page_id = p

\* C3 witness: a frame has changed hands: an invalid entry and a valid entry
\* name the same frame.
C3_Witness ==
    /\ running
    /\ \E p, q \in DOMAIN pages :
          /\ ~pages[p].valid
          /\ pages[q].valid
          /\ pages[p].frame_index = pages[q].frame_index

\* C4: no two distinct frames record the same page as owner, frames that
\* were never assigned excepted.
C4_OwnersDistinct ==
    \A f, g \in FrameIds :
        (f # g /\ frames.entries[f].page_id = frames.entries[g].page_id)
            => frames.entries[f].page_id = USIZE_MAX

\* C4 witness: several frames, all occupied, after a page was evicted and a
\* resident page was dropped from the TLB (its next access is a page hit).
C4_Witness ==
    /\ running
    /\ frames.table_size >= 2
    /\ \A f \in FrameIds : frames.entries[f].page_id # USIZE_MAX
    /\ \E p \in DOMAIN pages : ~pages[p].valid
    /\ \E p \in DOMAIN pages : pages[p].valid /\ ~TLBHas(tlb, p)

\* C5: between accesses every occupied frame's buffer equals, byte for
\* byte, the backing store's image of the page it records as owner.
C5_FramesHoldPageImage ==
    running =>
        \A f \in FrameIds :
            frames.entries[f].page_id # USIZE_MAX =>
                \A j \in DOMAIN frames.entries[f].buffer :
                    /\ StoreHas(frames.entries[f].page_id * frames.frame_size + j)
                    /\ frames.entries[f].buffer[j] =
                           StoreByte(frames.entries[f].page_id * frames.frame_size + j)

\* C6: right after a fault reclaimed a frame whose previous owner is prev,
\* the page table's entry of prev is invalid and the TLB has no entry of prev.
C6_VictimInvalidAndFlushed ==
    (last.path = "fault" /\ last.prev # USIZE_MAX) =>
        /\ PageTableHas(pages, last.prev)
        /\ ~pages[last.prev].valid
        /\ ~TLBHas(tlb, last.prev)

\* C6 witness: the fault of the latest access reclaimed a frame whose owner
\* was in the TLB (the flush was counted), in a TLB of at least two entries.
C6_Witness ==
    /\ last.kind = "Ok"
    /\ last.path = "fault"
    /\ last.prev # USIZE_MAX
    /\ tracker.tlb_flushes = 1
    /\ tlb.table_size >= 2

\* the frame order of the pool, least recently handed out first: the frames
\* still available, then the victimizer queue from its head
FrameOrder ==
    [i \in 1..(Len(frames.available.list) + Len(frames.victimizer.list)) |->
        IF i <= Len(frames.available.list)
        THEN frames.available.list[Len(frames.available.list) + 1 - i]
        ELSE frames.victimizer.list[Len(frames.available.list)
                                    + Len(frames.victimizer.list) + 1 - i]]

\* C7: every successful access moves the frame it resolved to to the
\* most-recently-used end of the frame order, so a fault on a full pool
\* reclaims the least recently accessed frame: with 2 frames the pages
\* 1, 2, 1, 3 evict page 2 and leave page 1 resident.
C7_TrueLru ==
    /\ last.kind = "Ok" => FrameOrder[Len(FrameOrder)] = last.frame_index
    /\ (running /\ frames.table_size = 2 /\ history = <<1, 2, 1, 3>>) =>
           (pages[1].valid /\ ~pages[2].valid)

\* C8: cache_element of a new key on a TLB holding table_size entries drops
\* the front (oldest inserted) entry; on a TLB of size 3 holding keys 0, 1, 2
\* in that insertion order, caching keys 3 and 4 leaves key 0 gone and key 4
\* found.
C8_EvictsFront ==
    /\ \A key \in 0..MaxTlbKey, value \in 0..MaxTlbValue :
           (Len(tlb.map) = tlb.table_size /\ ~TLBHas(tlb, key)) =>
               TLBCacheElement(tlb, key, value).map
                   = Append(Tail(tlb.map), <<key, value>>)
    /\ (tlb.table_size = 3 /\ TlbOrder = <<0, 1, 2>>) =>
           /\ ~TLBHas(TLBCacheElement(TLBCacheElement(tlb, 3, 0), 4, 0), 0)
           /\ TLBHas(TLBCacheElement(TLBCacheElement(tlb, 3, 0), 4, 0), 4)

\* C9: with a TLB of size 2 and at least 3 frames, the cold-start pages
\* 1, 2, 3 leave exactly pages 2 and 3 in the TLB, page 1 valid in the page
\* table and tlb_flushes at 0.
C9_CapacityEvictionScenario ==
    (running /\ tlb.table_size = 2 /\ frames.table_size >= 3
     /\ history = <<1, 2, 3>>) =>
        /\ LhmKeys(tlb.map) = {2, 3}
        /\ pages[1].valid
        /\ tracker.tlb_flushes = 0

\* C10 as claimed: with a TLB of size 2 the cold-start pages 1, 2, 1 give
\* tlb_hits = 1 and a TLB holding exactly pages 1 and 2 with page 1 at the
\* back.
C10_HitPromotes ==
    (running /\ tlb.table_size = 2 /\ history = <<1, 2, 1>>) =>
        /\ tracker.tlb_hits = 1
        /\ LhmKeys(tlb.map) = {1, 2}
        /\ TlbOrder[Len(TlbOrder)] = 1

\* C10 as amended: with a TLB of size 2 the cold-start pages 1, 2, 1 give
\* tlb_hits = 1 and a TLB holding exactly pages 1 and 2 in insertion order:
\* page 1 at the front, page 2 at the back (the hit does not re-seat page 1).
C10_HitKeepsOrder ==
    (running /\ tlb.table_size = 2 /\ history = <<1, 2, 1>>) =>
        /\ tracker.tlb_hits = 1
        /\ TlbOrder = <<1, 2>>

\* C10 witness: the third access of the scenario was a TLB hit.
C10_Witness ==
    /\ running
    /\ tlb.table_size = 2
    /\ history = <<1, 2, 1>>
    /\ last.path = "tlb_hit"

\* C11: a TLB hit leaves the TLB's entries and their order exactly as they
\* were, and capacity eviction goes by insertion order whatever was hit: an
\* access that caches a page into a full TLB, with no flush, drops the front
\* (oldest inserted) entry and appends the new one at the back.
C11_HitsKeepInsertionOrder ==
    [][/\ (tracker'.attempted_memory_accesses # tracker.attempted_memory_accesses
           /\ last'.path = "tlb_hit") => tlb' = tlb
       /\ (tracker'.attempted_memory_accesses # tracker.attempted_memory_accesses
           /\ last'.path \in {"page_hit", "fault"}
           /\ last'.kind # "Err"
           /\ tracker'.tlb_flushes = tracker.tlb_flushes
           /\ Len(tlb.map) = tlb.table_size) =>
              tlb'.map = Append(Tail(tlb.map),
                                <<NumberPage(last'.virtual_address), last'.frame_index>>)
      ]_vars

\* C12: the TLB never holds more entries than its configured size, after
\* any sequence of cache_element and flush_element calls.
C12_TlbWithinCapacity == Len(tlb.map) <= tlb.table_size

\* C12 witness: a TLB of several entries filled to capacity, where the next
\* cache_element must make room.
C12_Witness ==
    /\ tlb.table_size >= 2
    /\ Len(tlb.map) = tlb.table_size

\* C13: the available queue followed by the victimizer queue holds every
\* frame index 0..table_size-1 exactly once, and the queues' length
\* counters agree with their lists.
C13_FrameOrderIsPermutation ==
    /\ Len(FrameOrder) = frames.table_size
    /\ {FrameOrder[i] : i \in 1..Len(FrameOrder)} = 0..(frames.table_size - 1)
    /\ frames.available.len = Len(frames.available.list)
    /\ frames.victimizer.len = Len(frames.victimizer.list)

\* C13 witness: a pool of several frames after the reaper reclaimed one.
C13_Witness ==
    /\ frames.table_size >= 2
    /\ last.path = "fault"
    /\ last.prev # USIZE_MAX

\* an access has just run: access increments attempted_memory_accesses first
Accessed == tracker'.attempted_memory_accesses # tracker.attempted_memory_accesses

\* C14: an access to the virtual address of the access just before it, which
\* returned Ok, returns the same value and the same physical address, is a
\* TLB hit, adds exactly one to tlb_hits and nothing to page_hits or
\* tlb_flushes.
C14_RepeatIsTlbHit ==
    [][(Accessed
        /\ last.kind = "Ok"
        /\ last'.virtual_address = last.virtual_address) =>
           /\ last'.kind = "Ok"
           /\ last'.value = last.value
           /\ last'.physical_address = last.physical_address
           /\ last'.path = "tlb_hit"
           /\ tracker'.tlb_hits = tracker.tlb_hits + 1
           /\ tracker'.page_hits = tracker.page_hits
           /\ tracker'.tlb_flushes = tracker.tlb_flushes
      ]_vars

\* C14 witness: two accesses, the second a TLB hit; with frames of one byte
\* both had offset 0, and the only page known is the one the first brought
\* in: the same virtual address twice.
C14_Witness ==
    /\ last.kind = "Ok"
    /\ last.path = "tlb_hit"
    /\ tracker.attempted_memory_accesses = 2
    /\ tracker.tlb_hits = 1
    /\ frames.frame_size = 1

\* C15: the physical address of every successful access is f * frame_size + o
\* in 32 bits, f the frame the page table gives the page and o the decoded
\* offset, and it is below table_size * frame_size.
C15_PhysicalAddress ==
    last.kind = "Ok" =>
        /\ PageTableHas(pages, LastPage)
        /\ pages[LastPage].valid
        /\ last.physical_address
               = AsU32(pages[LastPage].frame_index * frames.frame_size + LastOffset)
        /\ last.physical_address < frames.table_size * frames.frame_size

\* C15 witness: a successful access at a non-zero offset of a frame other
\* than frame 0.
C15_Witness ==
    /\ last.kind = "Ok"
    /\ last.frame_index >= 1
    /\ LastOffset >= 1

\* C16: an access adds one to tlb_flushes when it is a page fault whose
\* reclaimed frame's previous owner has a TLB entry, and nothing otherwise;
\* with 2 frames the cold-start pages 1, 2, 3 reclaim on the third access the
\* frame of page 1, whose entry becomes invalid, and tlb_flushes is 1 if the
\* TLB held page 1.
C16_FlushCounting ==
    [][Accessed =>
          /\ tracker'.tlb_flushes = tracker.tlb_flushes
                 + (IF last'.path = "fault" /\ TLBHas(tlb, last'.prev) THEN 1 ELSE 0)
          /\ (frames.table_size = 2 /\ history' = <<1, 2, 3>>) =>
                 /\ last'.prev = 1
                 /\ ~pages'[1].valid
                 /\ TLBHas(tlb, 1) => tracker'.tlb_flushes = 1
                 /\ ~TLBHas(tlb, 1) => tracker'.tlb_flushes = 0
      ]_vars

\* C16 witness: the scenario with a TLB of 2 entries, which held page 1.
C16_Witness ==
    /\ frames.table_size = 2
    /\ tlb.table_size = 2
    /\ history = <<1, 2, 3>>
    /\ last.kind = "Ok"
    /\ tracker.tlb_flushes = 1

\* C17: a page-table entry is never removed; a valid entry turns invalid
\* only in the fault of another page that reclaims its frame; an access to a
\* page whose entry is invalid, or that has no entry, takes the fault path,
\* adds nothing to tlb_hits or page_hits and, unless the read fails, leaves
\* the page with a valid entry.
C17_PageStateMachine ==
    [][/\ DOMAIN pages \subseteq DOMAIN pages'
       /\ \A p \in DOMAIN pages :
              (pages[p].valid /\ ~pages'[p].valid) =>
                  /\ Accessed
                  /\ last'.path = "fault"
                  /\ NumberPage(last'.virtual_address) # p
                  /\ last'.prev = p
                  /\ last'.frame_index = pages[p].frame_index
       /\ \A p \in DOMAIN pages :
              (~pages[p].valid /\ pages'[p].valid) =>
                  (Accessed /\ NumberPage(last'.virtual_address) = p)
       /\ (Accessed
           /\ ~(PageTableHas(pages, NumberPage(last'.virtual_address))
                /\ pages[NumberPage(last'.virtual_address)].valid)) =>
              /\ last'.path = "fault"
              /\ tracker'.tlb_hits = tracker.tlb_hits
              /\ tracker'.page_hits = tracker.page_hits
              /\ last'.kind # "Err" =>
                     /\ PageTableHas(pages', NumberPage(last'.virtual_address))
                     /\ pages'[NumberPage(last'.virtual_address)].valid
      ]_vars

\* C17 witness: one frame, three faults, two pages known: the third access
\* brought back the page the second had evicted.
C17_Witness ==
    /\ frames.table_size = 1
    /\ tracker.attempted_memory_accesses = 3
    /\ tracker.tlb_hits = 0
    /\ tracker.page_hits = 0
    /\ Cardinality(DOMAIN pages) = 2
    /\ last.kind = "Ok"

\* C18: a page fault whose read came back without an error had the whole
\* image of the page inside the backing store file: a page that lies wholly
\* or partly past the end of the file gives an error, never a success.
C18_ShortReadIsError ==
    (last.path = "fault" /\ last.kind # "Err") =>
        (LastPage + 1) * frames.frame_size <= storage

\* C19: when the read of a page fault fails, access returns the error with
\* the page neither cached in the TLB nor given a valid page-table entry,
\* and the run ends there: no step is taken after an access returned Err.
C19_ReadErrorEndsRun ==
    [][/\ last.kind # "Err"
       /\ last'.kind = "Err" =>
              /\ last'.path = "fault"
              /\ ~TLBHas(tlb', NumberPage(last'.virtual_address))
              /\ ~(PageTableHas(pages', NumberPage(last'.virtual_address))
                   /\ pages'[NumberPage(last'.virtual_address)].valid)
              /\ ~running'
      ]_vars

\* C19 witness: the read failed for a page that had been resident before
\* and was evicted (it has an entry, invalid).
C19_Witness ==
    /\ last.kind = "Err"
    /\ ~running
    /\ PageTableHas(pages, LastPage)
    /\ \E p \in DOMAIN pages : pages[p].valid

\* the configurations the claim calls valid
IsPowerOfTwo(x) == \E k \in 0..(MaxFrameBits + 2) : x = Pow2(k)

ConfigIsValid ==
    /\ config.size_tlb > 0
    /\ config.size_tlb <= config.size_table
    /\ IsPowerOfTwo(config.size_frame)

C21_MismatchDoesNotStop ==
    [][/\ (Accessed /\ last'.kind = "Ok") =>
            /\ running'
            /\ exit_code' = NoExit
            /\ tracker'.correct_memory_accesses =
                 tracker.correct_memory_accesses
                 + (IF /\ last'.virtual_address = runner'.expected.virtual_address
                       /\ last'.value = runner'.expected.value
                    THEN 1 ELSE 0)
            /\ tracker'.correct_memory_accesses + Len(runner'.failures) =
                 tracker'.attempted_memory_accesses
       /\ (exit_code' # exit_code) =>
            /\ tracker' = tracker
            /\ exit_code' = (IF Len(runner.failures) > 0 THEN 2 ELSE 0)
      ]_vars

\* record 0 was reported, records 1 and 2 were still replayed and counted,
\* and the run ended with 2
C21_Witness ==
    /\ exit_code = 2
    /\ runner.failures = <<0>>
    /\ tracker.attempted_memory_accesses = 3
    /\ tracker.correct_memory_accesses = 2

\* C23: every access adds exactly one to attempted_memory_accesses and exactly
\* one to one of tlb_hits, page_hits and the number of retrieve_frame calls,
\* leaving the other two alone; so after any sequence of accesses
\* attempted_memory_accesses = tlb_hits + page_hits + page faults.
C23_OnePathPerAccess ==
    [][Accessed =>
         /\ tracker'.attempted_memory_accesses = tracker.attempted_memory_accesses + 1
         /\ {tracker'.tlb_hits - tracker.tlb_hits,
             tracker'.page_hits - tracker.page_hits,
             loads'.faults - loads.faults} = {0, 1}
         /\ (tracker'.tlb_hits - tracker.tlb_hits)
              + (tracker'.page_hits - tracker.page_hits)
              + (loads'.faults - loads.faults) = 1
         /\ tracker'.attempted_memory_accesses =
              tracker'.tlb_hits + tracker'.page_hits + loads'.faults
      ]_vars

\* four accesses: two faults, then a page hit, then a TLB hit
C23_Witness ==
    /\ tracker.attempted_memory_accesses = 4
    /\ loads.faults = 2
    /\ tracker.page_hits = 1
    /\ tracker.tlb_hits = 1
    /\ last.path = "tlb_hit"

\* C24: after N accesses the number of distinct pages read from the backing
\* store is at most min(N, frame_count + evictions), evictions being the
\* number of faults whose allocated frame already had an owning page.
C24_LoadedPagesBound ==
    Cardinality(loads.pages) <=
        Min(tracker.attempted_memory_accesses, frames.table_size + loads.evictions)

\* three pages through a single frame: two evictions, and the bound is met
C24_Witness ==
    /\ frames.table_size = 1
    /\ history = <<0, 1, 2>>
    /\ loads.evictions = 2
    /\ Cardinality(loads.pages) = 3

\* allocate on the frame table ft neither underflows a queue length nor
\* meets an empty queue, and returns an index of the table
AllocateSucceeds(ft) ==
    /\ (ft.victimizer.len = ft.table_size) =>
           (ft.victimizer.len >= 1 /\ Len(ft.victimizer.list) >= 1)
    /\ AfterReaper(ft).available.len >= 1
    /\ Len(AfterReaper(ft).available.list) >= 1
    /\ AllocIndex(ft) \in 0..(ft.table_size - 1)

\* C25: on a frame table of size >= 1, after any number of allocations, the
\* next call of FrameTable::allocate does not panic and returns an index in
\* 0..table_size-1, and so did the call of the latest fault.
C25_AllocateNeverFails ==
    /\ frames.table_size >= 1 => AllocateSucceeds(frames)
    /\ last.path = "fault" => last.frame_index \in 0..(frames.table_size - 1)

\* the fourth allocation on a table of three frames: the reaper has run and
\* frame 0 was handed out again
C25_Witness ==
    /\ frames.table_size = 3
    /\ loads.faults = 4
    /\ last.path = "fault"
    /\ last.frame_index = 0

\* C26: after cache_element(p, f) on a TLB that already held p, the TLB has
\* no more entries than before and its back (newest) entry is p mapped to f.
C26_RecacheKeepsSize ==
    (last.kind = "cache" /\ last.key \in LhmKeys(last.before)) =>
        /\ Len(tlb.map) <= Len(last.before)
        /\ Len(tlb.map) >= 1
        /\ tlb.map[Len(tlb.map)] = <<last.key, last.value>>

\* a full TLB of size 3 whose front key 0 was cached again with a new frame
C26_Witness ==
    /\ tlb.table_size = 3
    /\ last.kind = "cache"
    /\ last.before = <<<<0, 0>>, <<1, 0>>, <<2, 0>>>>
    /\ last.key = 0
    /\ last.value = 1

\* C27: decoding a 32-bit unsigned integer and recomposing the decoded
\* address yields the integer again, high 16 bits included.
C27_RoundTrip ==
    \A i \in 1..Len(history) :
        /\ history[i].into = history[i].original
        /\ history[i].into.hi = history[i].address.extra_bits

\* 0xffff12ff was decoded and recomposed
C27_Witness ==
    /\ history # <<>>
    /\ history[Len(history)].original = [hi |-> Half - 1, lo |-> 4863]
    /\ history[Len(history)].into = [hi |-> Half - 1, lo |-> 4863]

\* C28: VirtualAddress::from(v) has page = (v >> 8) & 0xFF, offset = v & 0xFF
\* and extra = v >> 16, and two decoded addresses are equal exactly when the
\* three fields are equal, which is exactly when the integers are equal.
C28_DecodedFields ==
    /\ \A i \in 1..Len(history) :
          /\ history[i].address.number_page = (history[i].original.lo \div 256) % 256
          /\ history[i].address.number_offset = history[i].original.lo % 256
          /\ history[i].address.extra_bits = history[i].original.hi
    /\ \A i, j \in 1..Len(history) :
          /\ VirtualAddressEq(history[i].address, history[j].address)
               <=> (history[i].original = history[j].original)
          /\ VirtualAddressEq(history[i].address, history[j].address)
               <=> (history[i].address = history[j].address)

\* 0xabcd1234 decodes to page 0x12, offset 0x34, extra 0xabcd, and differs
\* from the decoding of 0x00001234 in the extra bits alone
C28_Witness ==
    /\ Len(history) = 2
    /\ history[1].original = [hi |-> 0, lo |-> 4660]
    /\ history[2].original = [hi |-> TestExtra, lo |-> 4660]
    /\ history[2].address =
         [number_page |-> TestPage, number_offset |-> TestOffset, extra_bits |-> TestExtra]

\* C29: allocate returns the frame at the front of the replacement order and
\* moves it to the back, whatever hits come in between: after k allocations
\* on a table of n frames the order is 0..n-1 rotated by k, the k-th call
\* returned (k - 1) mod n, and the next call returns the front, k mod n.
C29_AllocateCycles ==
    /\ Len(FrameOrder) = frames.table_size
    /\ \A i \in 1..frames.table_size :
           FrameOrder[i] = (loads.faults + i - 1) % frames.table_size
    /\ AllocIndex(frames) = FrameOrder[1]
    /\ last.path = "fault" =>
           /\ last.frame_index = (loads.faults - 1) % frames.table_size
           /\ last.frame_index = FrameOrder[Len(FrameOrder)]

\* three allocations on two frames with a TLB hit between the first two:
\* frames 0, 1 and 0 again
C29_Witness ==
    /\ frames.table_size = 2
    /\ history = <<0, 0, 1, 2>>
    /\ last.frame_index = 0
    /\ FrameOrder = <<1, 0>>

\* C30: on a cold start, a fault met while fewer than table_size distinct
\* pages have been loaded puts the page in the frame numbered by the count of
\* pages loaded before it, so the first k <= table_size distinct pages sit in
\* frames 0..k-1 in order of first access, where hits leave them; the first
\* access has physical_address = offset; and as long as no more than
\* table_size distinct pages have been loaded every page-table entry is
\* valid.  The count of pages loaded is taken after accesses whose store
\* read did not fail; whatever the reads do, no entry is invalid before the
\* fault after the table_size-th.
C30_ColdStart ==
    [][Accessed =>
         /\ (/\ last'.path = "fault"
             /\ last'.kind # "Err"
             /\ Cardinality(loads.pages) < frames.table_size) =>
                /\ last'.frame_index = Cardinality(loads.pages)
                /\ pages'[NumberPage(last'.virtual_address)] =
                     [frame_index |-> Cardinality(loads.pages), valid |-> TRUE]
                /\ \A p \in DOMAIN pages : pages'[p] = pages[p]
         /\ last'.path # "fault" => pages' = pages
         /\ (tracker.attempted_memory_accesses = 0 /\ last'.kind = "Ok") =>
                last'.physical_address = NumberOffset(last'.virtual_address)
         /\ (last'.kind # "Err" /\ Cardinality(loads'.pages) <= frames.table_size) =>
                \A p \in DOMAIN pages' : pages'[p].valid
         /\ loads'.faults <= frames.table_size =>
                \A p \in DOMAIN pages' : pages'[p].valid
      ]_vars

\* three frames, three distinct pages and a hit in four accesses: the third
\* page has just been loaded into frame 2 and all three entries are valid
C30_Witness ==
    /\ frames.table_size = 3
    /\ tracker.attempted_memory_accesses = 4
    /\ Cardinality(loads.pages) = 3
    /\ last.path = "fault"
    /\ last.kind = "Ok"
    /\ last.frame_index = 2
    /\ \A p \in DOMAIN pages : pages[p].valid

\* C31: after every access that returned Ok for page p and frame f, by
\* whichever path, the TLB maps p to f and the page table holds p with
\* frame_index f and valid = true.
C31_ResolvedPageCached ==
    last.kind = "Ok" =>
        /\ TLBHas(tlb, LastPage)
        /\ TLBFind(tlb, LastPage) = last.frame_index
        /\ PageTableHas(pages, LastPage)
        /\ pages[LastPage] = [frame_index |-> last.frame_index, valid |-> TRUE]

\* a page hit on a full one-entry TLB: page 0 is back in the TLB
C31_Witness ==
    /\ tlb.table_size = 1
    /\ history = <<0, 1, 0>>
    /\ last.kind = "Ok"
    /\ last.path = "page_hit"
    /\ TlbOrder = <<0>>

\* C32: cache_element of a page the TLB already holds removes no other page
\* from the TLB, full or not: a page leaves the TLB through cache_element
\* only when the TLB is at capacity and the key is new.
C32_RecacheRemovesNoOther ==
    last.kind = "cache" =>
        /\ last.key \in LhmKeys(last.before) =>
               LhmKeys(tlb.map) = LhmKeys(last.before)
        /\ LhmKeys(last.before) \subseteq LhmKeys(tlb.map)
             \/ (Len(last.before) = tlb.table_size /\ last.key \notin LhmKeys(last.before))

\* C33: the replay loop issues one access for every record of the address
\* trace, also when the validation file holds fewer records: the run never
\* ends having read an address record it did not access.
C33_NoRecordSkipped ==
    exit_code # NoExit => ~runner.unpaired

\* C34: under every configuration validate accepts and for every virtual
\* address the decoded offset indexes inside the frame buffer, so no access
\* panics on the index.
C34_OffsetWithinFrame ==
    last.kind # "None" =>
        /\ LastOffset < frames.frame_size
        /\ last.kind # "Panic"

\* C35: on an engine that goes on being used after a failed store read, after
\* every later access no two frames record the same owning page, and no
\* frame other than the one a resident page is mapped to carries that page's
\* id, so that reclaiming a frame never invalidates or flushes a page
\* resident elsewhere.
C35_CoherentAfterError ==
    /\ \A f, g \in FrameIds :
           (f # g /\ frames.entries[f].page_id # USIZE_MAX) =>
               frames.entries[f].page_id # frames.entries[g].page_id
    /\ \A f \in FrameIds :
           (/\ PageTableHas(pages, frames.entries[f].page_id)
            /\ pages[frames.entries[f].page_id].valid) =>
               pages[frames.entries[f].page_id].frame_index = f

\* C36: an access that is a TLB hit or a page hit leaves every page-table
\* entry, every frame's owning page id and buffer, and tlb_flushes as they
\* were; a TLB hit leaves the TLB as it was too.
C36_HitsTouchNoMapping ==
    [][(Accessed /\ last'.path \in {"tlb_hit", "page_hit"}) =>
         /\ pages' = pages
         /\ frames'.entries = frames.entries
         /\ tracker'.tlb_flushes = tracker.tlb_flushes
         /\ loads' = loads
         /\ last'.path = "tlb_hit" => tlb' = tlb
      ]_vars

\* a page hit after an eviction that flushed the TLB: pages 0, 1, 2 through
\* two frames and a one-entry TLB, then page 1 again
C36_Witness ==
    /\ frames.table_size = 2
    /\ tlb.table_size = 1
    /\ history = <<0, 1, 2, 1>>
    /\ last.path = "page_hit"
    /\ ~pages[0].valid

\* C37: a page fault writes the owning page id and the buffer of one frame
\* only, the one allocate returned, which then records the faulting page;
\* of the page-table entries of other pages it changes at most one, that of
\* the frame's previous owner, which goes from valid to invalid; every other
\* frame and every other entry is as before.
C37_FaultTouchesOneFrame ==
    [][(Accessed /\ last'.path = "fault") =>
         /\ last'.frame_index \in FrameIds
         /\ frames'.entries[last'.frame_index].page_id = NumberPage(last'.virtual_address)
         /\ \A f \in FrameIds :
                f # last'.frame_index => frames'.entries[f] = frames.entries[f]
         /\ DOMAIN pages' \subseteq DOMAIN pages \cup {NumberPage(last'.virtual_address)}
         /\ \A p \in DOMAIN pages :
                (p # NumberPage(last'.virtual_address) /\ pages'[p] # pages[p]) =>
                    /\ p = frames.entries[last'.frame_index].page_id
                    /\ pages[p].valid
                    /\ pages'[p] = [pages[p] EXCEPT !.valid = FALSE]
      ]_vars

\* a fault that reclaimed frame 0 of three from page 0 and loaded page 3,
\* pages 1 and 2 staying valid in frames 1 and 2
C37_Witness ==
    /\ frames.table_size = 3
    /\ history = <<0, 1, 2, 3>>
    /\ last.path = "fault"
    /\ last.prev = 0
    /\ ~pages[0].valid
    /\ pages[1].valid
    /\ pages[2].valid
    /\ frames.entries[0].page_id = 3

\* the pages whose page-table entry is valid
ValidPages == {p \in DOMAIN pages : pages[p].valid}

\* C38: at most table_size page-table entries are valid, and no two valid
\* pages have the same frame_index.
C38_ValidPagesFitFrames ==
    /\ Cardinality(ValidPages) <= frames.table_size
    /\ \A p, q \in ValidPages :
           pages[p].frame_index = pages[q].frame_index => p = q
    /\ \A p \in ValidPages : pages[p].frame_index \in FrameIds

\* four pages through three frames: three valid entries on three frames,
\* the first page invalid
C38_Witness ==
    /\ frames.table_size = 3
    /\ loads.evictions = 1
    /\ Cardinality(ValidPages) = 3
    /\ Cardinality(DOMAIN pages) = 4

\* C39: the Fifo returns its elements in the order they were enqueued, the
\* n-th element dequeued being the n-th enqueued, and its length counter
\* always equals the number of elements it holds, which is the number
\* enqueued less the number dequeued.
C39_FifoOrderAndLength ==
    /\ (last.kind = "dequeue" /\ last.returned # <<>>) =>
           last.returned = <<history[last.dequeued]>>
    /\ Len(frames.available.list) = Len(history) - Dequeued
    /\ frames.available.len = Len(frames.available.list)

====
